---- MODULE Spec2Model ----
(***************************************************************************)
(* Model of the SPHiros equation-of-state layer: the two closure models    *)
(* (EOSLinearGas, EOSStiffenedGas), their Kokkos::parallel_for kernels,    *)
(* and the two callers found in the repository: main() of sphiros.cpp      *)
(* (the std::visit dispatch loop) and TEST(EOSStiffenedGasTest, ...).      *)
(*                                                                         *)
(* A double is modelled as an exact rational [n, d] in lowest terms with   *)
(* d > 0; the results of a division by zero are kept as IEEE keeps them:   *)
(* [n |-> 1, d |-> 0] is +inf, [n |-> -1, d |-> 0] is -inf and             *)
(* [n |-> 0, d |-> 0] is NaN.  Rounding of the binary format is not        *)
(* modelled.                                                               *)
(***************************************************************************)
EXTENDS Integers, Sequences, FiniteSets, TLC

VARIABLES
    caller,      \* which program runs: "main" (sphiros.cpp), "main_mesh" (its
                 \* later version) or "test" (the gtest)
    backend,     \* the build's default execution space: "host" or "device"
    pc,          \* the caller's position
    mpi,         \* state of the MPI runtime
    kokkos,      \* state of the Kokkos runtime
    eos_vector,  \* the model collection, a sequence of EOS objects
    rho, eint,   \* input views, functions on 0..N-1 (<<>> when not allocated)
    p, sos,      \* output views
    k,           \* position of the range-for over eos_vector (1-based)
    lane,        \* per index, the progress of the kernel launched last
    host_p,      \* what the caller reads through its mirror host_p
    host_sos     \* what the caller reads through its mirror host_sos

vars == <<caller, backend, pc, mpi, kokkos, eos_vector, rho, eint, p, sos,
          k, lane, host_p, host_sos>>

(* ------------------------------ bounds -------------------------------- *)

\* Largest extent of the particle views drawn for a run.
MaxN == 2
\* Largest number of models held by eos_vector in a run.
MaxModels == 2

(* ------------------------- double arithmetic -------------------------- *)

Abs(x) == IF x < 0 THEN -x ELSE x

Sign(x) == IF x < 0 THEN -1 ELSE IF x > 0 THEN 1 ELSE 0

\* Euclid's algorithm, as a function of the two numbers.
GcdOf[a \in Nat, b \in Nat] == IF b = 0 THEN a ELSE GcdOf[b, a % b]

Gcd(a, b) == GcdOf[a, b]

\* The rational n/d in lowest terms, as a function of n and d; d = 0 gives
\* an infinity or NaN.
NormOf[n \in Int, d \in Int] ==
    IF d = 0 THEN [n |-> Sign(n), d |-> 0]
    ELSE IF d < 0 THEN
        LET g == Gcd(Abs(n), -d) IN [n |-> (-n) \div g, d |-> (-d) \div g]
    ELSE
        LET g == Gcd(Abs(n), d) IN [n |-> n \div g, d |-> d \div g]

Norm(n, d) == NormOf[n, d]

Rat(n, d) == Norm(n, d)

IsNaN(a) == a.d = 0 /\ a.n = 0

\* operator- on doubles (finite operands).
RSub(a, b) == Norm(a.n * b.d - b.n * a.d, a.d * b.d)

\* operator+ on doubles (finite operands).
RAdd(a, b) == Norm(a.n * b.d + b.n * a.d, a.d * b.d)

\* operator* on doubles (finite operands).
RMul(a, b) == Norm(a.n * b.n, a.d * b.d)

\* operator/ on doubles: x/0 is +inf or -inf by the sign of x, 0/0 is NaN.
RDiv(a, b) == Norm(a.n * b.d, a.d * b.n)

\* operator< on doubles: false when either side is NaN.
RLess(a, b) ==
    IF IsNaN(a) \/ IsNaN(b) THEN FALSE
    ELSE IF a.d = 0 \/ b.d = 0 THEN
        IF a.d = 0 /\ b.d = 0 THEN a.n < b.n
        ELSE IF a.d = 0 THEN a.n < 0
        ELSE b.n > 0
    ELSE LET g == Gcd(a.d, b.d)
         IN  a.n * (b.d \div g) < b.n * (a.d \div g)

RLeq(a, b) == (~IsNaN(a)) /\ (~IsNaN(b)) /\ ~RLess(b, a)

\* Kokkos::max(a, b) is  a < b ? b : a.
KokkosMax(a, b) == IF RLess(a, b) THEN b ELSE a

Zero == Rat(0, 1)
One == Rat(1, 1)

\* The literals 1.4 and 1e-6 of main() and of the test.
Gamma14 == Rat(14, 10)
Cutoff1em6 == Rat(1, 1000000)

(* ----------------------------- EOS objects ---------------------------- *)

EOSLinearGas(id, gamma, pcutoff) ==
    [kind |-> "EOSLinearGas", m_id |-> id, m_gamma |-> gamma,
     m_pcutoff |-> pcutoff]

EOSStiffenedGas(id, gamma, pcutoff, pinf) ==
    [kind |-> "EOSStiffenedGas", m_id |-> id, m_gamma |-> gamma,
     m_pcutoff |-> pcutoff, m_pinf |-> pinf]

\* The objects a run may hold: the EOSLinearGas of main(), the
\* EOSStiffenedGas of the test, and an EOSStiffenedGas with pinf = 0.0 as in
\* main() but with another gamma and a large floor.
Models ==
    { EOSLinearGas(0, Gamma14, Cutoff1em6),
      EOSStiffenedGas(0, Gamma14, Cutoff1em6, Rat(1, 10)),
      EOSStiffenedGas(1, Rat(2, 1), Rat(1, 2), Zero) }

\* The (rho, eint) pairs a particle slot may be filled with: the inputs of
\* main() and of the test, a negative energy that drives every model onto
\* its floor, another density, and rho = 0, which violates the unchecked
\* precondition.
Slots ==
    { [rho |-> One, eint |-> One],
      [rho |-> One, eint |-> Rat(2, 1)],
      [rho |-> One, eint |-> Rat(-1, 1)],
      [rho |-> Rat(2, 1), eint |-> One],
      [rho |-> Zero, eint |-> One] }

(* ------------------------------- kernels ------------------------------ *)

\* LinearGasP with the floor taken from what p(i) holds before the pass
\* instead of m_pcutoff.
LinearGasP_accumulating(obj, rhoV, eintV, i) ==
    KokkosMax(RMul(RMul(RSub(obj.m_gamma, One), rhoV[i]), eintV[i]), p[i])

\* LinearGasP with (1.0 - m_gamma) in place of (m_gamma - 1.0).
LinearGasP_signFlipped(obj, rhoV, eintV, i) ==
    KokkosMax(RMul(RMul(RSub(One, obj.m_gamma), rhoV[i]), eintV[i]),
              obj.m_pcutoff)

\* LinearGasP with the factor m_gamma in place of (m_gamma - 1.0).
LinearGasP_gammaFactor(obj, rhoV, eintV, i) ==
    KokkosMax(RMul(RMul(obj.m_gamma, rhoV[i]), eintV[i]), obj.m_pcutoff)

\* EOSLinearGas: p(i) = Kokkos::max((m_gamma - 1.0) * rho(i) * eint(i), m_pcutoff)
LinearGasP(obj, rhoV, eintV, i) ==
    KokkosMax(RMul(RMul(RSub(obj.m_gamma, One), rhoV[i]), eintV[i]),
              obj.m_pcutoff)

\* LinearGasSoS reading the pressure of slot 0 instead of its own slot.
LinearGasSoS_slot0(obj, rhoV, pV, i) ==
    RDiv(RMul(obj.m_gamma, pV[0]), rhoV[i])

\* EOSLinearGas: sos(i) = m_gamma * p(i) / rho(i)
LinearGasSoS(obj, rhoV, pV, i) ==
    RDiv(RMul(obj.m_gamma, pV[i]), rhoV[i])

\* StiffenedGasP without the floor.
StiffenedGasP_noFloor(obj, rhoV, eintV, i) ==
    RSub(RMul(RMul(RSub(obj.m_gamma, One), rhoV[i]), eintV[i]),
         RMul(obj.m_gamma, obj.m_pinf))

\* StiffenedGasP subtracting m_gamma * m_pcutoff, the wrong member.
StiffenedGasP_wrongMember(obj, rhoV, eintV, i) ==
    KokkosMax(RSub(RMul(RMul(RSub(obj.m_gamma, One), rhoV[i]), eintV[i]),
                   RMul(obj.m_gamma, obj.m_pcutoff)),
              obj.m_pcutoff)

\* EOSStiffenedGas: p(i) = Kokkos::max((m_gamma - 1.0) * rho(i) * eint(i)
\*                                     - m_gamma * m_pinf, m_pcutoff)
StiffenedGasP(obj, rhoV, eintV, i) ==
    KokkosMax(RSub(RMul(RMul(RSub(obj.m_gamma, One), rhoV[i]), eintV[i]),
                   RMul(obj.m_gamma, obj.m_pinf)),
              obj.m_pcutoff)

\* StiffenedGasSoS with m_pinf left out of the sum.
StiffenedGasSoS_noPinf(obj, rhoV, pV, i) ==
    RDiv(RMul(obj.m_gamma, pV[i]), rhoV[i])

\* EOSStiffenedGas: sos(i) = m_gamma * (p(i) + m_pinf) / rho(i)
StiffenedGasSoS(obj, rhoV, pV, i) ==
    RDiv(RMul(obj.m_gamma, RAdd(pV[i], obj.m_pinf)), rhoV[i])

\* std::visit resolves obj.PressureSoSImpl to the alternative held.
VisitP(obj, rhoV, eintV, i) ==
    IF obj.kind = "EOSLinearGas" THEN LinearGasP(obj, rhoV, eintV, i)
    ELSE StiffenedGasP(obj, rhoV, eintV, i)

VisitSoS(obj, rhoV, pV, i) ==
    IF obj.kind = "EOSLinearGas" THEN LinearGasSoS(obj, rhoV, pV, i)
    ELSE StiffenedGasSoS(obj, rhoV, pV, i)

(* ------------------------------- mirrors ------------------------------ *)

\* The two versions of main(): sphiros.cpp, and the later one that goes on
\* to load the YAML input and convert the mesh after the dispatch block.
Mains == {"main", "main_mesh"}

\* Kokkos::create_mirror_view(v): v itself when v's memory is host
\* accessible (a host build), a new host allocation otherwise.  The result
\* is the name of the storage the mirror refers to.
CreateMirrorView(v) == IF backend = "host" THEN v ELSE "mirror"

\* host_sos made a mirror of rho in main().
HostSosSource_rho == IF caller \in Mains THEN "rho" ELSE "sos"

\* The view `host_sos` is made a mirror of: p in main(), sos in the test.
HostSosSource == IF caller \in Mains THEN "p" ELSE "sos"

\* Content of device view `name` after Kokkos::deep_copy(dst, src), where
\* dst refers to storage dstRef, cur is the view's content before the copy
\* and srcV is the content of src.
DeepCopyInto(name, dstRef, cur, srcV) == IF dstRef = name THEN srcV ELSE cur

\* What a mirror referring to ref shows: the aliased view, or its own copy.
ReadMirror(ref, rhoV, eintV, pV, sosV, own) ==
    CASE ref = "rho" -> rhoV
      [] ref = "eint" -> eintV
      [] ref = "p" -> pV
      [] ref = "sos" -> sosV
      [] OTHER -> own

(* ------------------------------- program ------------------------------ *)

Extent(v) == Cardinality(DOMAIN v)

Indices(n) == 0 .. (n - 1)

\* Every index of the kernel launched last has completed.
KernelDone == \A i \in DOMAIN lane : lane[i] = "done"

\* The collections a run may build.
ModelSeqs ==
    UNION { [1 .. n -> Models] :
            n \in 1 .. (IF caller = "test" THEN 1 ELSE MaxModels) }

InitWith(callers) ==
    /\ caller \in callers
    /\ backend \in {"host", "device"}
    /\ pc = IF caller \in Mains THEN "mpi_init" ELSE "kokkos_init"
    /\ mpi = "none"
    /\ kokkos = "none"
    /\ eos_vector = <<>>
    /\ rho = <<>> /\ eint = <<>> /\ p = <<>> /\ sos = <<>>
    /\ k = 1
    /\ lane = <<>>
    /\ host_p = <<>> /\ host_sos = <<>>

Init == InitWith({"main", "test"})

\* MPI_Init(&argc, &argv)
MPIInit ==
    /\ pc = "mpi_init"
    /\ mpi' = "initialized"
    /\ pc' = "kokkos_init"
    /\ UNCHANGED <<caller, backend, kokkos, eos_vector, rho, eint, p, sos, k,
                   lane, host_p, host_sos>>

\* The caller goes on without having called Kokkos::initialize.
KokkosInitialize_skipped ==
    /\ pc = "kokkos_init"
    /\ pc' = IF caller \in Mains THEN "parse" ELSE "setup"
    /\ UNCHANGED <<caller, backend, mpi, kokkos, eos_vector, rho, eint, p,
                   sos, k, lane, host_p, host_sos>>

\* Kokkos::initialize
KokkosInitialize ==
    /\ pc = "kokkos_init"
    /\ kokkos' = "initialized"
    /\ pc' = IF caller \in Mains THEN "parse" ELSE "setup"
    /\ UNCHANGED <<caller, backend, mpi, eos_vector, rho, eint, p, sos, k,
                   lane, host_p, host_sos>>

\* app.parse(argc, argv) returns normally.
ParseOK ==
    /\ pc = "parse"
    /\ pc' = "setup"
    /\ UNCHANGED <<caller, backend, mpi, kokkos, eos_vector, rho, eint, p,
                   sos, k, lane, host_p, host_sos>>

\* app.parse throws CLI::ParseError: finalize both runtimes and return.
ParseError ==
    /\ pc = "parse"
    /\ kokkos' = "finalized"
    /\ mpi' = "finalized"
    /\ pc' = "done"
    /\ UNCHANGED <<caller, backend, eos_vector, rho, eint, p, sos, k, lane,
                   host_p, host_sos>>

\* The block's set-up: the collection is filled, the four views are
\* allocated with one extent (zero-initialised) and rho, eint are filled.
Setup ==
    /\ pc = "setup"
    /\ \E seq \in ModelSeqs, n \in 0 .. MaxN :
         \E s \in [Indices(n) -> Slots] :
            /\ eos_vector' = seq
            /\ rho' = [i \in Indices(n) |-> s[i].rho]
            /\ eint' = [i \in Indices(n) |-> s[i].eint]
            /\ p' = [i \in Indices(n) |-> Zero]
            /\ sos' = [i \in Indices(n) |-> Zero]
    /\ k' = 1
    /\ pc' = "loop"
    /\ UNCHANGED <<caller, backend, mpi, kokkos, lane, host_p, host_sos>>

\* The range-for has visited every element of eos_vector.
LoopFinished == k > Len(eos_vector)

\* A launch that leaves out the last index of the range.
Visit_shortRange ==
    /\ pc = "loop"
    /\ ~LoopFinished
    /\ lane' = [i \in Indices(Extent(rho) - 1) |-> "todo"]
    /\ pc' = "in_call"
    /\ UNCHANGED <<caller, backend, mpi, kokkos, eos_vector, rho, eint, p,
                   sos, k, host_p, host_sos>>

\* obj.PressureSoSImpl(rho, eint, p, sos) is entered for eos_vector[k]:
\* N = rho.extent(0) and Kokkos::parallel_for launches N index bodies.
Visit ==
    /\ pc = "loop"
    /\ ~LoopFinished
    /\ lane' = [i \in Indices(Extent(rho)) |-> "todo"]
    /\ pc' = "in_call"
    /\ UNCHANGED <<caller, backend, mpi, kokkos, eos_vector, rho, eint, p,
                   sos, k, host_p, host_sos>>

\* First statement of the lambda for index i: p(i) = ...
StepP(i) ==
    /\ lane[i] = "todo"
    /\ p' = [p EXCEPT ![i] = VisitP(eos_vector[k], rho, eint, i)]
    /\ lane' = [lane EXCEPT ![i] = "p"]
    /\ UNCHANGED <<caller, backend, pc, mpi, kokkos, eos_vector, rho, eint,
                   sos, k, host_p, host_sos>>

\* Second statement of the lambda for index i: sos(i) = ...
StepSoS(i) ==
    /\ lane[i] = "p"
    /\ sos' = [sos EXCEPT ![i] = VisitSoS(eos_vector[k], rho, p, i)]
    /\ lane' = [lane EXCEPT ![i] = "done"]
    /\ UNCHANGED <<caller, backend, pc, mpi, kokkos, eos_vector, rho, eint,
                   p, k, host_p, host_sos>>

\* Kokkos::parallel_for may hand control back: a host execution space runs
\* the range to its end first, a device execution space only enqueues it.
ParallelForReturns == backend = "host" => KernelDone

\* PressureSoSImpl returns to the lambda of the dispatch loop.
Return ==
    /\ pc = "in_call"
    /\ ParallelForReturns
    /\ pc' = "returned"
    /\ UNCHANGED <<caller, backend, mpi, kokkos, eos_vector, rho, eint, p,
                   sos, k, lane, host_p, host_sos>>

\* A deep_copy that does not wait for the kernels launched before it.
Fence_none == TRUE

\* A deep_copy that waits for index 0 of the kernel only.
Fence_firstIndex == \A i \in DOMAIN lane : i = 0 => lane[i] = "done"

\* Kokkos::deep_copy(dst, src) without an execution space fences: it
\* proceeds once every kernel launched before it has completed.
Fence == KernelDone

\* create_mirror_view twice, deep_copy(host_p, p), deep_copy(host_sos, sos),
\* then the values are read (printed, or compared by the test) and the loop
\* moves to the next element.
MirrorCopy ==
    /\ pc = "returned"
    /\ Fence
    /\ LET refP   == CreateMirrorView("p")
           refSoS == CreateMirrorView(HostSosSource)
           \* deep_copy(host_p, p)
           rho1   == DeepCopyInto("rho", refP, rho, p)
           eint1  == DeepCopyInto("eint", refP, eint, p)
           p1     == DeepCopyInto("p", refP, p, p)
           sos1   == DeepCopyInto("sos", refP, sos, p)
           \* deep_copy(host_sos, sos)
           rho2   == DeepCopyInto("rho", refSoS, rho1, sos1)
           eint2  == DeepCopyInto("eint", refSoS, eint1, sos1)
           p2     == DeepCopyInto("p", refSoS, p1, sos1)
           sos2   == DeepCopyInto("sos", refSoS, sos1, sos1)
       IN  /\ rho' = rho2
           /\ eint' = eint2
           /\ p' = p2
           /\ sos' = sos2
           /\ host_p' = ReadMirror(refP, rho2, eint2, p2, sos2, p)
           /\ host_sos' = ReadMirror(refSoS, rho2, eint2, p2, sos2, sos1)
    /\ k' = k + 1
    /\ pc' = "loop"
    /\ UNCHANGED <<caller, backend, mpi, kokkos, eos_vector, lane>>

\* The closing brace of the block: the views and the collection are
\* destroyed.
ScopeExit ==
    /\ pc = "loop"
    /\ LoopFinished
    /\ eos_vector' = <<>>
    /\ rho' = <<>> /\ eint' = <<>> /\ p' = <<>> /\ sos' = <<>>
    /\ host_p' = <<>> /\ host_sos' = <<>>
    /\ pc' = IF caller = "main_mesh" THEN "load_yaml" ELSE "kokkos_finalize"
    /\ UNCHANGED <<caller, backend, mpi, kokkos, k, lane>>

\* Kokkos::finalize()
KokkosFinalize ==
    /\ pc = "kokkos_finalize"
    /\ kokkos' = "finalized"
    /\ pc' = IF caller \in Mains THEN "mpi_finalize" ELSE "done"
    /\ UNCHANGED <<caller, backend, mpi, eos_vector, rho, eint, p, sos, k,
                   lane, host_p, host_sos>>

\* MPI_Finalize(); return 0
MPIFinalize ==
    /\ pc = "mpi_finalize"
    /\ mpi' = "finalized"
    /\ pc' = "done"
    /\ UNCHANGED <<caller, backend, kokkos, eos_vector, rho, eint, p, sos, k,
                   lane, host_p, host_sos>>

Next ==
    \/ MPIInit
    \/ KokkosInitialize
    \/ ParseOK
    \/ ParseError
    \/ Setup
    \/ Visit
    \/ \E i \in DOMAIN lane : StepP(i)
    \/ \E i \in DOMAIN lane : StepSoS(i)
    \/ Return
    \/ MirrorCopy
    \/ ScopeExit
    \/ KokkosFinalize
    \/ MPIFinalize

Spec == Init /\ [][Next]_vars

(* ------------------- main() with the mesh conversion ------------------ *)

\* YAML::LoadFile(input_file) and the reading of config["mesh"] return.
LoadFileOK ==
    /\ pc = "load_yaml"
    /\ pc' = "mesh_io"
    /\ UNCHANGED <<caller, backend, mpi, kokkos, eos_vector, rho, eint, p,
                   sos, k, lane, host_p, host_sos>>

\* YAML::LoadFile (no such file, not YAML) or config["mesh"].as<std::string>()
\* throws; main() has no handler for it, so std::terminate ends the process.
LoadFileThrows ==
    /\ pc = "load_yaml"
    /\ pc' = "terminated"
    /\ UNCHANGED <<caller, backend, mpi, kokkos, eos_vector, rho, eint, p,
                   sos, k, lane, host_p, host_sos>>

\* The try block around the embedded interpreter: the mesh is read and
\* written, or pybind11::error_already_set is caught and reported.
MeshIO ==
    /\ pc = "mesh_io"
    /\ pc' = "kokkos_finalize"
    /\ UNCHANGED <<caller, backend, mpi, kokkos, eos_vector, rho, eint, p,
                   sos, k, lane, host_p, host_sos>>

InitMesh == InitWith(Mains)

NextMesh ==
    \/ Next
    \/ LoadFileOK
    \/ LoadFileThrows
    \/ MeshIO

SpecMesh == InitMesh /\ [][NextMesh]_vars

(* -------------------------- fair scheduling --------------------------- *)

\* The set-up with the values main() writes: Kokkos::deep_copy(rho, 1.0)
\* and Kokkos::deep_copy(eint, 1.0) give every index 1.0.
SetupFill ==
    /\ pc = "setup"
    /\ \E seq \in ModelSeqs, n \in 0 .. MaxN :
            /\ eos_vector' = seq
            /\ rho' = [i \in Indices(n) |-> One]
            /\ eint' = [i \in Indices(n) |-> One]
            /\ p' = [i \in Indices(n) |-> Zero]
            /\ sos' = [i \in Indices(n) |-> Zero]
    /\ k' = 1
    /\ pc' = "loop"
    /\ UNCHANGED <<caller, backend, mpi, kokkos, lane, host_p, host_sos>>

\* The steps of the calling thread.
CallerStep ==
    \/ MPIInit
    \/ KokkosInitialize
    \/ ParseOK
    \/ ParseError
    \/ SetupFill
    \/ Visit
    \/ Return
    \/ MirrorCopy
    \/ ScopeExit
    \/ KokkosFinalize
    \/ MPIFinalize

\* The steps of the backend's worker that was handed index i.
WorkerStep(i) == i \in DOMAIN lane /\ (StepP(i) \/ StepSoS(i))

NextLive ==
    \/ CallerStep
    \/ \E i \in Indices(MaxN) : WorkerStep(i)

\* The calling thread keeps running and every worker with an index body
\* left to execute is eventually scheduled.
Fairness ==
    /\ WF_vars(CallerStep)
    /\ \A i \in Indices(MaxN) : WF_vars(WorkerStep(i))

SpecLive == Init /\ [][NextLive]_vars /\ Fairness

(* ------------------------ the spec's formulas ------------------------- *)

\* max(a, b) of two reals.
SpecMax(a, b) == IF RLeq(b, a) THEN a ELSE b

\* (gamma - 1) * rho * e
LinearUnclamped(g, r, e) == RMul(RSub(g, One), RMul(r, e))

\* (gamma - 1) * rho * e - gamma * pinf
StiffenedUnclamped(g, pinf, r, e) ==
    RSub(LinearUnclamped(g, r, e), RMul(g, pinf))

\* The object whose kernel was launched last.
Cur == eos_vector[k]

\* PressureSoSImpl has returned and its kernel has completed; the caller
\* has not yet touched the views.
PassComplete == pc = "returned" /\ KernelDone

\* C1: when a LinearGas evaluation with gamma > 1 is complete, every index
\* with rho[i] > 0 holds p[i] = max((gamma-1)*rho[i]*e[i], pcutoff) and
\* c[i] = gamma*p[i]/rho[i] with the clamped p[i]; rho = 1, e = 1,
\* gamma = 1.4, pcutoff = 1e-6 gives p = 0.4.
C1_LinearGasEvaluation ==
    (PassComplete /\ Cur.kind = "EOSLinearGas" /\ RLess(One, Cur.m_gamma)) =>
        \A i \in DOMAIN rho :
            RLess(Zero, rho[i]) =>
                LET pe == SpecMax(LinearUnclamped(Cur.m_gamma, rho[i], eint[i]),
                                  Cur.m_pcutoff)
                IN  /\ p[i] = pe
                    /\ sos[i] = RDiv(RMul(Cur.m_gamma, pe), rho[i])
                    /\ (rho[i] = One /\ eint[i] = One /\ Cur.m_gamma = Gamma14
                        /\ Cur.m_pcutoff = Cutoff1em6) => p[i] = Rat(4, 10)

\* A LinearGas pass over rho = 1, e = 1 with gamma = 1.4, pcutoff = 1e-6
\* has completed and left p = 0.4.
C1_Witness ==
    /\ PassComplete /\ Cur.kind = "EOSLinearGas"
    /\ Cur.m_gamma = Gamma14 /\ Cur.m_pcutoff = Cutoff1em6
    /\ \E i \in DOMAIN rho :
          rho[i] = One /\ eint[i] = One /\ p[i] = Rat(4, 10)

\* C2: when a StiffenedGas evaluation with gamma > 1 is complete, every
\* index with rho[i] > 0 holds p[i] = max((gamma-1)*rho[i]*e[i] - gamma*pinf,
\* pcutoff) and c[i] = gamma*(p[i]+pinf)/rho[i] with the clamped p[i];
\* rho = 1, e = 2, gamma = 1.4, pcutoff = 1e-6, pinf = 0.1 gives p = 0.66
\* and c = 1.064.
C2_StiffenedGasEvaluation ==
    (PassComplete /\ Cur.kind = "EOSStiffenedGas" /\ RLess(One, Cur.m_gamma)) =>
        \A i \in DOMAIN rho :
            RLess(Zero, rho[i]) =>
                LET pe == SpecMax(StiffenedUnclamped(Cur.m_gamma, Cur.m_pinf,
                                                     rho[i], eint[i]),
                                  Cur.m_pcutoff)
                IN  /\ p[i] = pe
                    /\ sos[i] = RDiv(RMul(Cur.m_gamma, RAdd(pe, Cur.m_pinf)),
                                     rho[i])
                    /\ (rho[i] = One /\ eint[i] = Rat(2, 1)
                        /\ Cur.m_gamma = Gamma14 /\ Cur.m_pcutoff = Cutoff1em6
                        /\ Cur.m_pinf = Rat(1, 10)) =>
                            (p[i] = Rat(66, 100) /\ sos[i] = Rat(1064, 1000))

\* The test's scenario has been evaluated: p = 0.66 and c = 1.064.
C2_Witness ==
    /\ PassComplete /\ Cur.kind = "EOSStiffenedGas"
    /\ Cur.m_gamma = Gamma14 /\ Cur.m_pcutoff = Cutoff1em6
    /\ Cur.m_pinf = Rat(1, 10)
    /\ \E i \in DOMAIN rho :
          /\ rho[i] = One /\ eint[i] = Rat(2, 1)
          /\ p[i] = Rat(66, 100) /\ sos[i] = Rat(1064, 1000)

\* p of one index as the spec gives it for object obj.
SpecP(obj, r, e) ==
    IF obj.kind = "EOSLinearGas"
    THEN SpecMax(LinearUnclamped(obj.m_gamma, r, e), obj.m_pcutoff)
    ELSE SpecMax(StiffenedUnclamped(obj.m_gamma, obj.m_pinf, r, e),
                 obj.m_pcutoff)

\* c of one index as the spec gives it for object obj and pressure pr.
SpecSoS(obj, r, pr) ==
    IF obj.kind = "EOSLinearGas"
    THEN RDiv(RMul(obj.m_gamma, pr), r)
    ELSE RDiv(RMul(obj.m_gamma, RAdd(pr, obj.m_pinf)), r)

\* The dispatch loop has visited every element of the collection and the
\* views are still alive.
LoopDone == pc = "loop" /\ LoopFinished

\* C3: after the dispatch loop has evaluated N >= 2 models against the same
\* views, every p[i] and c[i] is exactly what the last model alone produces
\* from rho[i] and e[i] (stated for the indices with rho[i] > 0, where the
\* results are finite).
C3_LastWriteWins ==
    (LoopDone /\ Len(eos_vector) >= 2) =>
        LET last == eos_vector[Len(eos_vector)]
        IN  \A i \in DOMAIN rho :
                RLess(Zero, rho[i]) =>
                    /\ p[i] = SpecP(last, rho[i], eint[i])
                    /\ sos[i] = SpecSoS(last, rho[i],
                                        SpecP(last, rho[i], eint[i]))

\* C4 as stated: whenever PressureSoSImpl has returned to its caller, the
\* per-index computation has completed for every index.
C4_ReturnedImpliesComplete == pc = "returned" => KernelDone

\* C4 as amended: on a host execution space the kernel has completed when
\* PressureSoSImpl returns; on every build the kernel has completed before
\* the caller's deep_copy lets it read p or c, so outside the window between
\* the call and that deep_copy no index of a pass is unwritten.
C4_CompleteBeforeRead ==
    /\ (pc = "returned" /\ backend = "host") => KernelDone
    /\ pc \notin {"in_call", "returned"} => KernelDone

\* On a device build the caller has passed the deep_copy of a pass over a
\* non-empty range and holds the values of that pass.
C4_Witness ==
    /\ backend = "device" /\ pc = "loop" /\ k > 1
    /\ Extent(rho) > 0 /\ KernelDone
    /\ host_p = p

\* The indices whose kernel progress a step changes.
Moved == { i \in DOMAIN lane : lane'[i] # lane[i] }

\* A step of the kernel: a lane advances while the caller stays in place.
KernelStep == lane' # lane /\ pc' = pc

\* One kernel step belongs to one index i, runs the next of its two
\* statements, takes its operands from slot i and writes slot i only.
C5_Step ==
    KernelStep =>
        /\ DOMAIN lane' = DOMAIN lane
        /\ Cardinality(Moved) = 1
        /\ rho' = rho /\ eint' = eint
        /\ \A i \in Moved :
              /\ <<lane[i], lane'[i]>> \in {<<"todo", "p">>, <<"p", "done">>}
              /\ lane'[i] = "p" =>
                    (p'[i] = SpecP(Cur, rho[i], eint[i]) /\ sos' = sos)
              /\ lane'[i] = "done" =>
                    (sos'[i] = SpecSoS(Cur, rho[i], p[i]) /\ p' = p)
        /\ \A j \in (DOMAIN lane) \ Moved : p'[j] = p[j] /\ sos'[j] = sos[j]

\* The launched range is [0, rho.extent(0)), and whatever the order of the
\* steps was, the completed pass leaves the same p and c.
C5_Final ==
    /\ pc \in {"in_call", "returned"} => DOMAIN lane = DOMAIN rho
    /\ PassComplete =>
          \A i \in DOMAIN rho :
              /\ p[i] = SpecP(Cur, rho[i], eint[i])
              /\ sos[i] = SpecSoS(Cur, rho[i], p[i])

\* C5: within one pass the index steps are index-disjoint (the step of
\* index i reads rho[i], e[i] and its own p[i] and writes p[i], c[i] only),
\* each index of [0, length(rho)) is processed exactly once, and every
\* interleaving of the steps yields the same final p and c.
C5_IndexDisjoint == [][C5_Step]_vars /\ []C5_Final

\* Two indices are interleaved out of order: a higher index has finished
\* while a lower one is between its two statements.
C5_Witness ==
    \E i, j \in DOMAIN lane : i < j /\ lane[i] = "p" /\ lane[j] = "done"

\* The expression under the floor, for object obj.
Unclamped(obj, r, e) ==
    IF obj.kind = "EOSLinearGas" THEN LinearUnclamped(obj.m_gamma, r, e)
    ELSE StiffenedUnclamped(obj.m_gamma, obj.m_pinf, r, e)

\* C6: pcutoff is a hard floor for both variants: after an evaluation
\* p[i] >= pcutoff at every index, and p[i] = pcutoff exactly wherever the
\* unclamped expression is below pcutoff.
C6_HardFloor ==
    PassComplete =>
        \A i \in DOMAIN rho :
            /\ RLeq(Cur.m_pcutoff, p[i])
            /\ RLess(Unclamped(Cur, rho[i], eint[i]), Cur.m_pcutoff) =>
                  p[i] = Cur.m_pcutoff

\* A StiffenedGas pass has clamped a slot whose unclamped value is negative.
C6_Witness ==
    /\ PassComplete /\ Cur.kind = "EOSStiffenedGas"
    /\ \E i \in DOMAIN rho :
          /\ RLess(Unclamped(Cur, rho[i], eint[i]), Zero)
          /\ p[i] = Cur.m_pcutoff

\* C7: a StiffenedGas with pinf = 0 leaves, at every index, the p and the c
\* that a LinearGas with the same gamma and pcutoff computes from the same
\* rho and e.
C7_StiffenedZeroIsLinear ==
    (PassComplete /\ Cur.kind = "EOSStiffenedGas" /\ Cur.m_pinf = Zero) =>
        LET lin == EOSLinearGas(Cur.m_id, Cur.m_gamma, Cur.m_pcutoff)
        IN  \A i \in DOMAIN rho :
                /\ p[i] = LinearGasP(lin, rho, eint, i)
                /\ sos[i] = LinearGasSoS(lin, rho, [p EXCEPT ![i] =
                                            LinearGasP(lin, rho, eint, i)], i)

\* A StiffenedGas with pinf = 0 has completed a pass with a slot above the
\* floor and a slot on it.
C7_Witness ==
    /\ PassComplete /\ Cur.kind = "EOSStiffenedGas" /\ Cur.m_pinf = Zero
    /\ \E i, j \in DOMAIN rho :
          /\ RLess(Zero, rho[i]) /\ RLess(Cur.m_pcutoff, p[i])
          /\ p[j] = Cur.m_pcutoff

\* C8: for both variants and gamma > 1, p is non-decreasing in e at fixed
\* rho > 0: two slots of one pass with equal rho and e1 <= e2 hold
\* p1 <= p2.
C8_MonotoneInEnergy ==
    (PassComplete /\ RLess(One, Cur.m_gamma)) =>
        \A i, j \in DOMAIN rho :
            (rho[i] = rho[j] /\ RLess(Zero, rho[i]) /\ RLeq(eint[i], eint[j]))
                => RLeq(p[i], p[j])

\* Two slots of one pass with equal rho > 0 and e1 < e2 hold p1 < p2.
C8_Witness ==
    /\ PassComplete /\ RLess(One, Cur.m_gamma)
    /\ \E i, j \in DOMAIN rho :
          /\ rho[i] = rho[j] /\ RLess(Zero, rho[i])
          /\ RLess(eint[i], eint[j]) /\ RLess(p[i], p[j])

\* The positions of the caller inside the dispatch loop.
LoopPhases == {"loop", "in_call", "returned"}

\* Some view is allocated or the collection is built.
ViewsLive ==
    \/ rho # <<>> \/ eint # <<>> \/ p # <<>> \/ sos # <<>>
    \/ eos_vector # <<>>

\* While a dispatch call is in progress, a kernel is in flight, or a view
\* exists, the backend is initialized and not yet finalized.
C9_Inv ==
    (pc \in LoopPhases \/ ~KernelDone \/ ViewsLive) => kokkos = "initialized"

\* A step that allocates, writes or frees a view, or advances a kernel,
\* runs with the backend initialized before and after it.
C9_Access ==
    (rho' # rho \/ eint' # eint \/ p' # p \/ sos' # sos \/ lane' # lane) =>
        (kokkos = "initialized" /\ kokkos' = "initialized")

\* C9: the backend brackets all parallel work: every PressureSoSImpl call
\* of main() and of the test starts after Kokkos::initialize and has
\* returned before Kokkos::finalize, and no pass and no access to the
\* particle views happens before the one or after the other.
C9_BackendBrackets == []C9_Inv /\ [][C9_Access]_vars

\* main() has dispatched at least one model and has finalized both runtimes.
C9_Witness ==
    /\ caller = "main" /\ pc = "done" /\ k > 1
    /\ kokkos = "finalized" /\ mpi = "finalized"

\* A step inside the dispatch loop leaves rho, e, the extents of the four
\* views, the collection with the parameters of its objects, and the
\* runtimes as they were.
C10_Step ==
    (pc \in LoopPhases /\ pc' \in LoopPhases) =>
        /\ rho' = rho /\ eint' = eint
        /\ DOMAIN p' = DOMAIN p /\ DOMAIN sos' = DOMAIN sos
        /\ eos_vector' = eos_vector
        /\ mpi' = mpi /\ kokkos' = kokkos

\* C10: a PressureSoSImpl call and the whole dispatch loop leave rho, e, the
\* lengths of the four arrays, the models' parameters and the collection
\* unchanged; only the contents of p and c are modified.
C10_Frame == [][C10_Step]_vars

\* The loop over two models has ended with p and c written and the four
\* views of one non-zero extent.
C10_Witness ==
    /\ LoopDone /\ Len(eos_vector) >= 2
    /\ Extent(rho) > 0
    /\ DOMAIN p = DOMAIN rho /\ DOMAIN sos = DOMAIN rho
    /\ DOMAIN eint = DOMAIN rho
    /\ \E i \in DOMAIN rho : p[i] # Zero /\ sos[i] # Zero

\* A step of the outer loop and of the kernels keeps the passes apart: a
\* pass is launched only when no index of an earlier pass is unfinished, an
\* index step runs only between the call for eos_vector[k] and the deep_copy
\* that follows it, with k in place, and the loop moves on only when the
\* pass of eos_vector[k] is complete.
C11_Step ==
    /\ (pc = "loop" /\ pc' = "in_call") => KernelDone
    /\ KernelStep =>
          (pc \in {"in_call", "returned"} /\ k' = k /\ eos_vector' = eos_vector)
    /\ (pc \in LoopPhases /\ k' # k) => (KernelDone /\ k' = k + 1)

\* C11: the outer loop over the models is strictly sequential: the pass of
\* the model at position k+1 writes no p[i] or c[i] until the pass of the
\* model at position k has completed for all indices, so index steps of two
\* models are never in flight together.
C11_SequentialModels == [][C11_Step]_vars

\* On a device build the pass of the second model is in flight, after the
\* call has returned, and the first index is still unwritten by it.
C11_Witness ==
    /\ backend = "device" /\ pc = "returned" /\ k = 2
    /\ \E i \in DOMAIN lane : lane[i] = "todo"

\* The mirror host_sos of the caller refers to the storage of p.
HostSosAliasesP == CreateMirrorView(HostSosSource) = "p"

\* The model whose dispatch call (pass, mirrors and deep copies) ended last.
Prev == eos_vector[k - 1]

\* C13: dispatch is stateless and deterministic: after every dispatch call
\* p and c are a function of the model evaluated and of rho and e alone,
\* whatever p and c held before the call (zeros, or what an earlier model
\* left); evaluating the same model a second time reproduces the values read
\* after the first evaluation.
C13_Stateless ==
    /\ (pc = "loop" /\ k > 1) =>
          \A i \in DOMAIN rho :
              LET pe == SpecP(Prev, rho[i], eint[i])
              IN  /\ sos[i] = SpecSoS(Prev, rho[i], pe)
                  /\ p[i] = IF HostSosAliasesP THEN SpecSoS(Prev, rho[i], pe)
                            ELSE pe
                  /\ host_sos[i] = sos[i]
                  /\ host_p[i] = p[i]
    /\ (PassComplete /\ k > 1 /\ eos_vector[k - 1] = Cur) =>
          /\ sos = host_sos
          /\ ~HostSosAliasesP => p = host_p

\* The same model has been evaluated a second time, over views that held
\* the non-zero results of its first evaluation.
C13_Witness ==
    /\ PassComplete /\ k = 2 /\ eos_vector[1] = eos_vector[2]
    /\ Extent(rho) > 0
    /\ sos = host_sos /\ \E i \in DOMAIN rho : sos[i] # Zero

\* The process has ended: main() returned or std::terminate was called.
Exited == pc \in {"done", "terminated"}

\* C12: on every path by which main() exits after Kokkos::initialize has
\* run, the parse failure and a failure while loading the input file
\* included, Kokkos::finalize and then MPI_Finalize have been called
\* before the process ends.
C12_ReleasedOnEveryExit ==
    (Exited /\ caller \in Mains) =>
        (kokkos = "finalized" /\ mpi = "finalized")

\* The pass in flight has executed the body of every index of [0, N),
\* N = rho.extent(0).
PassDone ==
    /\ pc \in {"in_call", "returned"}
    /\ DOMAIN lane = DOMAIN rho
    /\ KernelDone

\* A step of the dispatch loop: a model is evaluated only while k points
\* into the collection, a call in progress ends only by returning, and k
\* moves only past the model whose pass has just completed, by one.
C14_Step ==
    /\ (pc = "loop" /\ pc' = "in_call") =>
          (k \in 1 .. Len(eos_vector) /\ k' = k)
    /\ (pc = "in_call" /\ pc' # pc) => (pc' = "returned" /\ k' = k)
    /\ (pc = "returned" /\ pc' # pc) => (pc' = "loop" /\ k' = k + 1)
    /\ (pc \in LoopPhases /\ k' # k) =>
          (pc = "returned" /\ PassDone /\ k' = k + 1)

\* C14: under fair scheduling, every elementwise pass that has begun
\* eventually completes all N indices, and the dispatch loop, once entered,
\* eventually terminates, having evaluated the models one by one in
\* sequence order, each exactly once.
C14_RunToCompletion ==
    /\ (pc = "in_call") ~> PassDone
    /\ (pc = "loop" /\ k = 1) ~> LoopDone
    /\ [][C14_Step]_vars

\* C14 witness: the loop over two models has terminated after passes over
\* a non-empty range on a backend whose workers run beside the caller.
C14_Witness ==
    /\ LoopDone /\ k = 3 /\ Len(eos_vector) = 2
    /\ backend = "device" /\ Extent(rho) = MaxN
    /\ DOMAIN lane = DOMAIN rho /\ KernelDone

====
